---- MODULE Spec2Model ----
(***************************************************************************)
(* Model of the ETL pipeline of src/main.py and of transform_data          *)
(* (src/transform.py).  A pandas cell is a record of one shape, a          *)
(* DataFrame is a record of its column labels, its index labels and its    *)
(* rows; transform_data is computed statement by statement on a frame of   *)
(* its local names, so that an exception or an early return stops it at    *)
(* the line where the code stops.                                          *)
(***************************************************************************)
EXTENDS Integers, Sequences, FiniteSets, TLC

\* ------------------------------------------------------------------ bounds
MaxSales == 3
MaxListings == 2
MaxRuns == 2

\* ------------------------------------------------------------------- cells
\* One pandas / Python scalar.  k is the kind: "null" (None, NaN, NaT),
\* "num" (the rational n/d in lowest terms), "str" (s), "date" (a
\* datetime64 day, n = yyyymmdd) or "ts" (a Timestamp, n = epoch seconds).
Null == [k |-> "null", n |-> 0, d |-> 1, s |-> ""]
Str(x) == [k |-> "str", n |-> 0, d |-> 1, s |-> x]
Date(ymd) == [k |-> "date", n |-> ymd, d |-> 1, s |-> ""]
Timestamp(secs) == [k |-> "ts", n |-> secs, d |-> 1, s |-> ""]

Abs(i) == IF i < 0 THEN -i ELSE i

RECURSIVE GCD(_, _)
GCD(a, b) == IF b = 0 THEN a ELSE GCD(b, a % b)

\* The float a/b (b > 0), kept exact.
Num(a, b) ==
    LET g == GCD(Abs(a), b)
    IN  [k |-> "num", n |-> a \div g, d |-> b \div g, s |-> ""]

isna(c) == c.k = "null"

\* ------------------------------------------------------------- DataFrames
\* columns: the column labels in order; index: the row labels in order;
\* rows: one function from column label to cell per row.
DataFrame(cols, idx, rws) == [columns |-> cols, index |-> idx, rows |-> rws]

Range(seq) == {seq[i] : i \in DOMAIN seq}

\* pd.DataFrame(): no columns, no rows.
EmptyDataFrame == DataFrame(<<>>, <<>>, <<>>)

\* DataFrame.empty: some axis has length 0.
empty(df) == Len(df.columns) = 0 \/ Len(df.index) = 0

\* df[col] = values (one cell per row): overwrite the column, or append it.
SetColumn(df, col, values) ==
    DataFrame(IF col \in Range(df.columns) THEN df.columns
                                           ELSE Append(df.columns, col),
              df.index,
              [i \in DOMAIN df.rows |->
                  [c \in DOMAIN df.rows[i] \cup {col} |->
                      IF c = col THEN values[i] ELSE df.rows[i][c]]])

Column(df, col) == [i \in DOMAIN df.rows |-> df.rows[i][col]]

\* The rows of df at the positions of keep, in order.
RECURSIVE TakeFrom(_, _, _)
TakeFrom(seq, keep, i) ==
    IF i > Len(seq) THEN <<>>
    ELSE IF i \in keep THEN <<seq[i]>> \o TakeFrom(seq, keep, i + 1)
    ELSE TakeFrom(seq, keep, i + 1)

\* ------------------------------------------------------------ the inputs
\* weather_data: None, or the dict of the weather API.  keys are the
\* top-level keys present; temp and humidity live under 'main', speed under
\* 'wind', descs are the 'description' values of the 'weather' list.
WeatherData(kind, keys, name, temp, humidity, descs, speed, dt) ==
    [kind |-> kind, keys |-> keys, name |-> name, temp |-> temp,
     humidity |-> humidity, descs |-> descs, speed |-> speed, dt |-> dt]

NoWeather == WeatherData("none", {}, Null, Null, Null, <<>>, Null, Null)
EmptyWeather == WeatherData("dict", {}, Null, Null, Null, <<>>, Null, Null)
London ==
    WeatherData("dict", {"name", "main", "weather", "wind", "dt"},
                Str("London"), Num(5, 1), Num(80, 1), <<Str("Rain")>>,
                Num(3, 1), Num(1672531200, 1))
\* a response with only a name
NameOnly == WeatherData("dict", {"name"}, Str("Paris"), Null, Null, <<>>,
                        Null, Null)
\* a response whose 'weather' list is empty
NoConditions ==
    WeatherData("dict", {"name", "main", "weather", "wind", "dt"},
                Str("Oslo"), Num(1, 2), Num(60, 1), <<>>, Num(2, 1),
                Num(86400, 1))

WeatherInputs == {NoWeather, EmptyWeather, London, NameOnly, NoConditions}

\* bool(weather_data)
WeatherTruthy(wd) == wd.kind = "dict" /\ wd.keys # {}

\* One scraped listing: a dict with some of the keys title, price,
\* availability.
GoodBook == [key \in {"title", "price", "availability"} |->
                CASE key = "title" -> Str("A Light in the Attic")
                  [] key = "price" -> Str("£51.77")
                  [] OTHER -> Str("In stock")]
BadPriceBook == [key \in {"title", "price", "availability"} |->
                CASE key = "title" -> Str("Tipping the Velvet")
                  [] key = "price" -> Str("N/A")
                  [] OTHER -> Str("In stock")]
NoPriceBook == [key \in {"title", "availability"} |->
                CASE key = "title" -> Str("Soumission")
                  [] OTHER -> Str("Out of stock")]
Books == {GoodBook, NoPriceBook}

SeqsUpTo(S, n) == UNION {[1..m -> S] : m \in 0..n}

\* scraped_data: None, or a list of listings.
ScrapedData(isNone, items) == [isNone |-> isNone, items |-> items]
ScrapedInputs(books) ==
    {ScrapedData(TRUE, <<>>)}
        \cup {ScrapedData(FALSE, items) : items \in SeqsUpTo(books, MaxListings)}

\* The raw cells of a sales CSV.
ProductIds == {Num(1, 1)}
SaleDates == {Str("2023-01-01"), Str("not a date")}
SaleAmounts == {Num(10, 1), Num(20, 1), Null}

RawColumns == <<"product_id", "sale_date", "sale_amount">>
TitledColumns == <<"Product_ID", "Sale Date", "Sale_Amount">>
Headers == {RawColumns, TitledColumns}

\* read_csv: the rows under the given header, with a RangeIndex 0..n-1.
ReadCsv(header, cells) ==
    DataFrame(header,
              [i \in DOMAIN cells |-> i - 1],
              [i \in DOMAIN cells |->
                  [c \in Range(header) |->
                      cells[i][CHOOSE j \in DOMAIN header : header[j] = c]]])

\* sales_df: None, or a DataFrame.
SalesData(isNone, df) == [isNone |-> isNone, df |-> df]
NoSales == SalesData(TRUE, EmptyDataFrame)

SalesInputs(pids, dates, amounts, headers) ==
    {NoSales}
        \cup {SalesData(FALSE, ReadCsv(h, cells)) :
                h \in headers,
                cells \in SeqsUpTo(pids \X dates \X amounts, MaxSales)}

\* ---------------------------------------------------------- conversions
WeatherColumns == <<"city", "temperature_celsius", "weather_condition",
                    "humidity_percent", "wind_speed_m_s", "report_timestamp">>

\* dict.get(key) at the top level of weather_data
WeatherGet(wd, key, value) == IF key \in wd.keys THEN value ELSE Null

\* pd.to_datetime(x, unit='s') of a scalar: epoch seconds to a Timestamp,
\* None to NaT.
to_datetime_s(c) ==
    IF c.k = "num" THEN Timestamp(c.n \div c.d) ELSE Null

\* col.lower().replace(' ', '_') on the labels that occur
lower_replace(col) ==
    CASE col = "Product_ID" -> "product_id"
      [] col = "Sale Date" -> "sale_date"
      [] col = "Sale_Amount" -> "sale_amount"
      [] OTHER -> col

\* df.columns = [...]: relabel the columns in place.
RenameColumns(df, newcols) ==
    DataFrame(newcols, df.index,
              [i \in DOMAIN df.rows |->
                  [c \in Range(newcols) |->
                      df.rows[i][df.columns[
                          CHOOSE j \in DOMAIN newcols : newcols[j] = c]]]])

\* a + b on two "num" cells
Add(a, b) == Num(a.n * b.d + b.n * a.d, a.d * b.d)

RECURSIVE Sum(_)
Sum(cells) ==
    IF cells = <<>> THEN Num(0, 1) ELSE Add(Head(cells), Sum(Tail(cells)))

\* mean with the sum divided by the number of all cells, null ones
\* included.
mean_of_all_cells(cells) ==
    LET present == SelectSeq(cells, LAMBDA c : ~isna(c))
        total == Sum(present)
    IN  IF present = <<>> THEN Null
        ELSE Num(total.n, total.d * Len(cells))

\* Series.mean(): the mean of the non-null cells, NaN when there is none.
mean(cells) ==
    LET present == SelectSeq(cells, LAMBDA c : ~isna(c))
        total == Sum(present)
    IN  IF present = <<>> THEN Null
        ELSE Num(total.n, total.d * Len(present))

\* Series.fillna(value)
fillna(cells, value) ==
    [i \in DOMAIN cells |-> IF isna(cells[i]) THEN value ELSE cells[i]]

\* Series.str.replace('£', '') on one cell: a string loses its pound signs,
\* a missing value stays missing.
str_replace_pound(c) ==
    IF c.k # "str" THEN Null
    ELSE CASE c.s = "£51.77" -> Str("51.77")
           [] OTHER -> c

\* pd.to_numeric(x, errors='coerce') on one cell
to_numeric(c) ==
    CASE c.k = "num" -> c
      [] c.k = "str" /\ c.s = "51.77" -> Num(5177, 100)
      [] c.k = "str" /\ c.s = "7" -> Num(7, 1)
      [] c.k = "str" /\ c.s = "-3" -> Num(-3, 1)
      [] c.k = "str" /\ c.s = "2.9" -> Num(29, 10)
      [] OTHER -> Null

\* astype(int) on a "num" cell: truncation towards zero
astype_int(c) ==
    IF c.n >= 0 THEN Num(c.n \div c.d, 1) ELSE Num(-((-c.n) \div c.d), 1)

\* pd.to_datetime(x, errors='coerce') on one cell of a column
to_datetime(c) ==
    CASE c.k = "date" -> c
      [] c.k = "str" /\ c.s = "2023-01-01" -> Date(20230101)
      [] c.k = "str" /\ c.s = "2023-01-02" -> Date(20230102)
      [] c.k = "str" /\ c.s = "2024-02-29" -> Date(20240229)
      [] OTHER -> Null

\* Series.dt.month
dt_month(c) == IF c.k = "date" THEN Num((c.n \div 100) % 100, 1) ELSE Null

DayNames == <<"Sunday", "Monday", "Tuesday", "Wednesday", "Thursday",
              "Friday", "Saturday">>
MonthOffsets == <<0, 3, 2, 5, 0, 3, 5, 1, 4, 6, 2, 4>>

\* Series.dt.day_name(): the weekday of the calendar day
dt_day_name(c) ==
    IF c.k # "date" THEN Null
    ELSE LET m == (c.n \div 100) % 100
             dd == c.n % 100
             y == IF m < 3 THEN (c.n \div 10000) - 1 ELSE c.n \div 10000
             w == (y + (y \div 4) - (y \div 100) + (y \div 400)
                     + MonthOffsets[m] + dd) % 7
         IN  Str(DayNames[w + 1])

\* --------------------------------------------------------- transform_data
\* The local names of one call of transform_data.  sales_df starts as the
\* caller's object (sales_is_arg); exc is the exception that ended the call
\* ("none" when none did), returned says that a return statement was
\* reached, log lists the statements executed, in order.
NewFrame(sales_arg) ==
    [exc |-> "none", returned |-> FALSE, log |-> <<>>,
     weather_df |-> EmptyDataFrame, scraped_df |-> EmptyDataFrame,
     sales_none |-> sales_arg.isNone, sales_df |-> sales_arg.df,
     sales_is_arg |-> TRUE,
     merged_df |-> EmptyDataFrame, final_df |-> EmptyDataFrame,
     final_is_sales |-> FALSE, duplicates_before |-> 0,
     final_df_cleaned |-> EmptyDataFrame,
     ret |-> EmptyDataFrame, ret_is_arg |-> FALSE]

Running(f) == f.exc = "none" /\ ~f.returned

Logged(f, what) == [f EXCEPT !.log = Append(f.log, what)]

Raise(f, what) == [f EXCEPT !.exc = what]

\* lines 30-41: the weather dict to a one-row DataFrame, or an empty one
\* with the weather columns.
ConvertWeather(f, wd) ==
    IF ~Running(f) THEN f
    ELSE IF WeatherTruthy(wd)
    THEN IF "weather" \in wd.keys /\ wd.descs = <<>>
         THEN Raise(Logged(f, "convert_weather"), "IndexError")
         ELSE LET row == [c \in Range(WeatherColumns) |->
                     CASE c = "city" -> WeatherGet(wd, "name", wd.name)
                       [] c = "temperature_celsius" ->
                              WeatherGet(wd, "main", wd.temp)
                       [] c = "weather_condition" ->
                              IF "weather" \in wd.keys THEN wd.descs[1]
                                                       ELSE Null
                       [] c = "humidity_percent" ->
                              WeatherGet(wd, "main", wd.humidity)
                       [] c = "wind_speed_m_s" ->
                              WeatherGet(wd, "wind", wd.speed)
                       [] OTHER ->
                              to_datetime_s(WeatherGet(wd, "dt", wd.dt))]
              IN  [Logged(f, "convert_weather") EXCEPT
                      !.weather_df = DataFrame(WeatherColumns, <<0>>, <<row>>)]
    ELSE [f EXCEPT !.weather_df = DataFrame(WeatherColumns, <<>>, <<>>)]

KeyOrder == <<"title", "price", "availability">>

\* The keys of the dicts of a list, in order of first appearance.
RECURSIVE UnionKeys(_, _)
UnionKeys(items, acc) ==
    IF items = <<>> THEN acc
    ELSE UnionKeys(Tail(items),
                   acc \o SelectSeq(KeyOrder,
                              LAMBDA key : key \in DOMAIN Head(items)
                                           /\ key \notin Range(acc)))

\* pd.DataFrame(list of dicts): a missing key is NaN.
FromRecords(items) ==
    LET cols == UnionKeys(items, <<>>)
    IN  DataFrame(cols,
                  [i \in DOMAIN items |-> i - 1],
                  [i \in DOMAIN items |->
                      [c \in Range(cols) |->
                          IF c \in DOMAIN items[i] THEN items[i][c]
                                                   ELSE Null]])

\* lines 43-46
ConvertScraped(f, sd) ==
    IF ~Running(f) THEN f
    ELSE IF ~sd.isNone /\ sd.items # <<>>
    THEN [Logged(f, "convert_scraped") EXCEPT
             !.scraped_df = FromRecords(sd.items)]
    ELSE [f EXCEPT !.scraped_df = EmptyDataFrame]

\* lines 48-49: an absent or empty sales table is replaced by a new empty
\* DataFrame; the caller's object is no longer the local one.
DefaultSales(f) ==
    IF ~Running(f) THEN f
    ELSE IF f.sales_none \/ empty(f.sales_df)
    THEN [f EXCEPT !.sales_df = EmptyDataFrame, !.sales_is_arg = FALSE]
    ELSE f

Standardized(df) ==
    RenameColumns(df, [j \in DOMAIN df.columns |-> lower_replace(df.columns[j])])

\* lines 53-58
StandardizeColumnNames(f) ==
    IF ~Running(f) THEN f
    ELSE LET f1 == IF ~empty(f.weather_df)
                   THEN [Logged(f, "standardize_weather") EXCEPT
                            !.weather_df = Standardized(f.weather_df)]
                   ELSE f
             f2 == IF ~empty(f1.scraped_df)
                   THEN [Logged(f1, "standardize_scraped") EXCEPT
                            !.scraped_df = Standardized(f1.scraped_df)]
                   ELSE f1
         IN  IF ~empty(f2.sales_df)
             THEN [Logged(f2, "standardize_sales") EXCEPT
                      !.sales_df = Standardized(f2.sales_df)]
             ELSE f2

\* lines 62-64: fill the missing sale_amount cells with the column's mean.
\* The mean of a column holding a string raises TypeError.
HandleMissingValues(f) ==
    IF ~Running(f) THEN f
    ELSE IF ~empty(f.sales_df) /\ "sale_amount" \in Range(f.sales_df.columns)
    THEN LET amounts == Column(f.sales_df, "sale_amount")
         IN  IF \E i \in DOMAIN amounts : amounts[i].k \notin {"num", "null"}
             THEN Raise(Logged(f, "fill_sale_amount"), "TypeError")
             ELSE [Logged(f, "fill_sale_amount") EXCEPT
                      !.sales_df = SetColumn(f.sales_df, "sale_amount",
                                             fillna(amounts, mean(amounts)))]
    ELSE f

KeepColumn(df, col) == df

\* df.drop(columns=[col])
DropColumn(df, col) ==
    DataFrame(SelectSeq(df.columns, LAMBDA c : c # col), df.index,
              [i \in DOMAIN df.rows |->
                  [c \in DOMAIN df.rows[i] \ {col} |-> df.rows[i][c]]])

\* rename(columns={'title': 'book_title', 'availability': 'book_availability'})
BookName(col) ==
    CASE col = "title" -> "book_title"
      [] col = "availability" -> "book_availability"
      [] OTHER -> col

\* lines 68-73: price to book_price_gbp, title and availability renamed.
CorrectScrapedTypes(f) ==
    IF ~Running(f) THEN f
    ELSE IF ~empty(f.scraped_df)
    THEN IF "price" \notin Range(f.scraped_df.columns)
         THEN Raise(Logged(f, "clean_price"), "KeyError")
         ELSE LET prices == Column(f.scraped_df, "price")
                  cleaned == [i \in DOMAIN prices |->
                                 to_numeric(str_replace_pound(prices[i]))]
                  priced == SetColumn(f.scraped_df, "book_price_gbp",
                                      fillna(cleaned, Num(0, 1)))
                  dropped == DropColumn(priced, "price")
              IN  [Logged(f, "clean_price") EXCEPT
                      !.scraped_df =
                          RenameColumns(dropped,
                              [j \in DOMAIN dropped.columns |->
                                  BookName(dropped.columns[j])])]
    ELSE f

\* lines 74-76: sale_date to a date, product_id to an int.
CorrectSalesTypes(f) ==
    IF ~Running(f) THEN f
    ELSE IF ~empty(f.sales_df)
    THEN LET dates == Column(f.sales_df, "sale_date")
             dated == SetColumn(f.sales_df, "sale_date",
                          [i \in DOMAIN dates |-> to_datetime(dates[i])])
             pids == Column(dated, "product_id")
             numeric == [i \in DOMAIN pids |-> to_numeric(pids[i])]
             filled == fillna(numeric, Num(0, 1))
         IN  [Logged(f, "coerce_sales") EXCEPT
                 !.sales_df = SetColumn(dated, "product_id",
                                 [i \in DOMAIN filled |->
                                     astype_int(filled[i])])]
    ELSE f

\* lines 80-82
FeatureEngineering(f) ==
    IF ~Running(f) THEN f
    ELSE IF ~empty(f.sales_df) /\ "sale_date" \in Range(f.sales_df.columns)
    THEN LET dates == Column(f.sales_df, "sale_date")
             monthed == SetColumn(f.sales_df, "sale_month",
                            [i \in DOMAIN dates |-> dt_month(dates[i])])
         IN  [Logged(f, "features") EXCEPT
                 !.sales_df = SetColumn(monthed, "sale_day_name",
                                 [i \in DOMAIN dates |->
                                     dt_day_name(dates[i])])]
    ELSE f

\* lines 28-82, sections 1 to 5: the three sources converted and cleaned.
normalize(weather_data, sales_arg, scraped_data) ==
    LET s1 == DefaultSales(
                  ConvertScraped(
                      ConvertWeather(NewFrame(sales_arg), weather_data),
                      scraped_data))
        s2 == StandardizeColumnNames(s1)
        s3 == HandleMissingValues(s2)
        s4 == CorrectSalesTypes(CorrectScrapedTypes(s3))
    IN  FeatureEngineering(s4)

\* lines 88-90: without sales rows, return a new empty DataFrame.
AbortIfSalesEmpty(f) ==
    IF ~Running(f) THEN f
    ELSE IF empty(f.sales_df)
    THEN [Logged(f, "abort_empty_sales") EXCEPT
             !.returned = TRUE, !.ret = EmptyDataFrame, !.ret_is_arg = FALSE]
    ELSE f

\* Broadcast with the column assigned whole (sales_df[col] = weather_df[col]):
\* the assignment aligns on the index, so only the row labelled 0 is set.
RECURSIVE BroadcastAligned(_, _, _)
BroadcastAligned(df, weather_df, j) ==
    IF j > Len(weather_df.columns) THEN df
    ELSE LET col == weather_df.columns[j]
         IN  BroadcastAligned(
                 SetColumn(df, col,
                     [i \in DOMAIN df.rows |->
                         IF df.index[i] = weather_df.index[1]
                         THEN weather_df.rows[1][col] ELSE Null]),
                 weather_df, j + 1)

\* sales_df[col] = value for every weather column, in column order
RECURSIVE Broadcast(_, _, _)
Broadcast(df, weather_df, j) ==
    IF j > Len(weather_df.columns) THEN df
    ELSE LET col == weather_df.columns[j]
         IN  Broadcast(SetColumn(df, col,
                           [i \in DOMAIN df.rows |-> weather_df.rows[1][col]]),
                       weather_df, j + 1)

\* BroadcastWeather without the test for an empty weather table: the weather
\* columns are written even when there is no weather row.
BroadcastWeatherAlways(f) ==
    IF ~Running(f) THEN f
    ELSE LET wrow == IF empty(f.weather_df)
                     THEN [c \in Range(f.weather_df.columns) |-> Null]
                     ELSE f.weather_df.rows[1]
             merged == Broadcast(f.sales_df,
                           DataFrame(f.weather_df.columns, <<0>>, <<wrow>>), 1)
         IN  [Logged(f, "broadcast") EXCEPT
                 !.sales_df = merged, !.merged_df = merged]

\* lines 95-101: the first weather row is written into sales_df itself;
\* merged_df is the same object as sales_df.
BroadcastWeather(f) ==
    IF ~Running(f) THEN f
    ELSE IF ~empty(f.weather_df)
    THEN LET merged == Broadcast(f.sales_df, f.weather_df, 1)
         IN  [Logged(f, "broadcast") EXCEPT
                 !.sales_df = merged, !.merged_df = merged]
    ELSE [f EXCEPT !.merged_df = f.sales_df]

\* The same merge with how='inner': only the left rows whose label the
\* right side has.
merge_inner_index(left, right) ==
    LET keep == {i \in DOMAIN left.rows : left.index[i] \in Range(right.index)}
        rws == [i \in DOMAIN left.rows |->
                   [c \in Range(left.columns) \cup Range(right.columns) |->
                       IF c \in Range(left.columns) THEN left.rows[i][c]
                       ELSE right.rows[CHOOSE j \in DOMAIN right.index :
                                right.index[j] = left.index[i]][c]]]
    IN  DataFrame(left.columns \o right.columns,
                  TakeFrom(left.index, keep, 1),
                  TakeFrom([i \in DOMAIN left.rows |->
                               IF i \in keep THEN rws[i] ELSE left.rows[i]],
                           keep, 1))

\* The same merge with how='outer': the right rows without a left row are
\* appended.
merge_outer_index(left, right) ==
    LET extra == {j \in DOMAIN right.rows :
                     right.index[j] \notin Range(left.index)}
        cols == Range(left.columns) \cup Range(right.columns)
    IN  DataFrame(left.columns \o right.columns,
                  left.index \o TakeFrom(right.index, extra, 1),
                  [i \in DOMAIN left.rows |->
                      [c \in cols |->
                          IF c \in Range(left.columns) THEN left.rows[i][c]
                          ELSE IF \E j \in DOMAIN right.index :
                                      right.index[j] = left.index[i]
                               THEN right.rows[CHOOSE j \in DOMAIN right.index :
                                        right.index[j] = left.index[i]][c]
                               ELSE Null]]
                    \o TakeFrom([j \in DOMAIN right.rows |->
                                    [c \in cols |->
                                        IF c \in Range(right.columns)
                                        THEN right.rows[j][c] ELSE Null]],
                                extra, 1))

\* pd.merge(left, right, how='left', left_index=True, right_index=True):
\* every left row, in order, with the right row of the same index label,
\* or nulls when the right side has no such label.
merge_left_index(left, right) ==
    DataFrame(left.columns \o right.columns, left.index,
              [i \in DOMAIN left.rows |->
                  [c \in Range(left.columns) \cup Range(right.columns) |->
                      IF c \in Range(left.columns) THEN left.rows[i][c]
                      ELSE IF \E j \in DOMAIN right.index :
                                  right.index[j] = left.index[i]
                           THEN right.rows[CHOOSE j \in DOMAIN right.index :
                                    right.index[j] = left.index[i]][c]
                           ELSE Null]])

\* MergeScraped that joins whatever scraped_df is: without listings the
\* join is made against an empty table that has the book columns.
MergeScrapedAlways(f) ==
    IF ~Running(f) THEN f
    ELSE [Logged(f, "join") EXCEPT
             !.final_df =
                 merge_left_index(f.merged_df,
                     IF empty(f.scraped_df)
                     THEN DataFrame(<<"book_title", "book_availability",
                                      "book_price_gbp">>, <<>>, <<>>)
                     ELSE f.scraped_df),
             !.final_is_sales = FALSE]

\* lines 104-117: merge makes a new DataFrame; without listings final_df
\* is the same object as merged_df.
MergeScraped(f) ==
    IF ~Running(f) THEN f
    ELSE IF ~empty(f.scraped_df)
    THEN [Logged(f, "join") EXCEPT
             !.final_df = merge_left_index(f.merged_df, f.scraped_df),
             !.final_is_sales = FALSE]
    ELSE [f EXCEPT !.final_df = f.merged_df, !.final_is_sales = TRUE]

\* line 124
subset_cols == <<"product_id", "sale_date", "sale_amount">>

KeyOf(row) == [j \in DOMAIN subset_cols |-> row[subset_cols[j]]]

\* duplicated with null cells comparing unequal (NaN != NaN): a key with
\* a null cell never repeats.
duplicated_nulls_differ(df) ==
    {i \in DOMAIN df.rows :
        /\ \A j \in DOMAIN subset_cols : ~isna(KeyOf(df.rows[i])[j])
        /\ \E j \in 1..(i - 1) : KeyOf(df.rows[j]) = KeyOf(df.rows[i])}

\* duplicated with keep='last': the positions whose key occurs again later.
duplicated_keep_last(df) ==
    {i \in DOMAIN df.rows :
        \E j \in (i + 1)..Len(df.rows) : KeyOf(df.rows[j]) = KeyOf(df.rows[i])}

\* duplicated that marks one row per pass: the first row whose key occurred
\* at an earlier position.
duplicated_one_per_pass(df) ==
    LET later == {i \in DOMAIN df.rows :
                    \E j \in 1..(i - 1) : KeyOf(df.rows[j]) = KeyOf(df.rows[i])}
    IN  {i \in later : \A k \in later : i <= k}

\* DataFrame.duplicated(subset): the positions whose key occurred at an
\* earlier position (null cells compare equal).
duplicated(df) ==
    {i \in DOMAIN df.rows :
        \E j \in 1..(i - 1) : KeyOf(df.rows[j]) = KeyOf(df.rows[i])}

\* DataFrame.drop_duplicates(subset, keep='first'): a new DataFrame
drop_duplicates(df) ==
    LET keep == DOMAIN df.rows \ duplicated(df)
    IN  DataFrame(df.columns, TakeFrom(df.index, keep, 1),
                  TakeFrom(df.rows, keep, 1))

\* lines 124-142
RemoveDuplicates(f) ==
    IF ~Running(f) THEN f
    ELSE LET n == Cardinality(duplicated(f.final_df))
         IN  IF n > 0
             THEN [Logged(f, "drop_duplicates") EXCEPT
                      !.duplicates_before = n,
                      !.final_df_cleaned = drop_duplicates(f.final_df),
                      !.ret_is_arg = FALSE]
             ELSE [f EXCEPT
                      !.duplicates_before = 0,
                      !.final_df_cleaned = f.final_df,
                      !.ret_is_arg = f.final_is_sales /\ f.sales_is_arg]

\* line 150
Return(f) ==
    IF ~Running(f) THEN f
    ELSE [f EXCEPT !.returned = TRUE, !.ret = f.final_df_cleaned]

\* transform_data(weather_data, sales_df, scraped_data): the frame when the
\* call ends.
transform_data(weather_data, sales_arg, scraped_data) ==
    LET m0 == AbortIfSalesEmpty(normalize(weather_data, sales_arg, scraped_data))
        m1 == BroadcastWeather(m0)
        m2 == MergeScraped(m1)
    IN  Return(RemoveDuplicates(m2))

\* The caller's sales object once the call has ended: the local sales_df
\* while it is still the caller's object.
SalesAfter(sales_arg, f) ==
    IF f.sales_is_arg /\ ~sales_arg.isNone THEN SalesData(FALSE, f.sales_df)
    ELSE sales_arg

\* ------------------------------------------------------------ the pipeline
\* run_pipeline of main.py.  pc is the phase the run is about to execute;
\* api_data, csv_data and scraped_data are its local names, csv_read is
\* what read_csv_data returned (the content of the CSV file), locals is the
\* frame of the last call of transform_data.
\* store is the content of the unified_data table, runs the number of the
\* run, load_status what load_data_to_db reported in this run.
VARIABLES pc, api_data, csv_data, scraped_data, csv_read, locals,
          store, runs, load_status

vars == <<pc, api_data, csv_data, scraped_data, csv_read, locals,
          store, runs, load_status>>

NoScraped == ScrapedData(TRUE, <<>>)

Init ==
    /\ pc = "extract"
    /\ api_data = NoWeather
    /\ csv_data = NoSales
    /\ scraped_data = NoScraped
    /\ csv_read = NoSales
    /\ locals = NewFrame(NoSales)
    /\ store = <<>>
    /\ runs = 1
    /\ load_status = "none"

\* Phase 1: whatever the weather API, the CSV file and the scraped page
\* hold.
ExtractFrom(weathers, sales, listings) ==
    /\ pc = "extract"
    /\ api_data' \in weathers
    /\ csv_data' \in sales
    /\ csv_read' = csv_data'
    /\ scraped_data' \in listings
    /\ locals' = NewFrame(NoSales)
    /\ pc' = "transform"
    /\ UNCHANGED <<store, runs, load_status>>

Extract ==
    ExtractFrom(WeatherInputs,
                SalesInputs(ProductIds, SaleDates, SaleAmounts, {RawColumns}),
                ScrapedInputs(Books))

\* Phase 1 for a CSV file of sales of one day, under either header.
ExtractOneDay ==
    ExtractFrom(WeatherInputs,
                SalesInputs(ProductIds, {Str("2023-01-01")}, SaleAmounts,
                            Headers),
                ScrapedInputs(Books))

\* The cells of a CSV file with malformed values: product ids that are
\* text, negative, fractional or missing, amounts that are text.
MalformedProductIds == {Str("abc"), Str("-3"), Str("2.9"), Null}
MalformedAmounts == {Num(10, 1), Str("abc")}
PricedBooks == {GoodBook, BadPriceBook}

\* Phase 1 for such a file, without weather and with listings that all
\* have a price, parseable or not.
ExtractMalformed ==
    ExtractFrom({NoWeather},
                SalesInputs(MalformedProductIds, {Str("2023-01-01")},
                            MalformedAmounts, {RawColumns}),
                ScrapedInputs(PricedBooks))

\* One call transform_data(weather, csv_data, listings): the caller's sales
\* object is left as the call left it; an exception ends the run.
Call(weather, listings) ==
    LET f == transform_data(weather, csv_data, listings)
    IN  /\ locals' = f
        /\ csv_data' = SalesAfter(csv_data, f)
        /\ pc' = IF f.exc = "none" THEN "load" ELSE "failed"

\* Phase 2
Transform ==
    /\ pc = "transform"
    /\ Call(api_data, scraped_data)
    /\ UNCHANGED <<api_data, scraped_data, csv_read, store, runs, load_status>>

\* A caller that passes the sales table it holds to transform_data again,
\* with another weather sample and the same listings.
TransformAgain ==
    /\ pc = "load"
    /\ \E w \in WeatherInputs :
          /\ api_data' = w
          /\ Call(w, scraped_data)
    /\ UNCHANGED <<scraped_data, csv_read, store, runs, load_status>>

\* The columns of the unified_data table except record_id (the CREATE
\* TABLE statement of setup_database).
UnifiedColumns ==
    {"product_id", "sale_date", "sale_amount", "sale_month", "sale_day_name",
     "city", "temperature_celsius", "weather_condition", "humidity_percent",
     "wind_speed_m_s", "report_timestamp",
     "book_title", "book_availability", "book_price_gbp"}

\* record_id INTEGER PRIMARY KEY AUTOINCREMENT: one more than the largest
\* id the table has held.
NextRecordId(st) == IF st = <<>> THEN 1 ELSE st[Len(st)].record_id + 1

\* The record inserted for one row of the DataFrame: the columns of the
\* table that the DataFrame does not have are NULL.
Inserted(id, row) ==
    [record_id |-> id,
     fields |-> [c \in UnifiedColumns |->
                    IF c \in DOMAIN row THEN row[c] ELSE Null]]

\* to_sql with if_exists='replace': the table is made anew from the
\* DataFrame.
to_sql_replace(st, df) ==
    [i \in DOMAIN df.rows |-> Inserted(i, df.rows[i])]

\* DataFrame.to_sql(if_exists='append', index=False): the rows of the
\* DataFrame, in order, after the records of the table.
to_sql(st, df) ==
    st \o [i \in DOMAIN df.rows |->
              Inserted(NextRecordId(st) + i - 1, df.rows[i])]

\* Phase 3: setup_database and load_data_to_db(unified_df).  An empty
\* DataFrame is not loaded; to_sql either inserts every row or raises an
\* error that load_data_to_db catches and reports, the table as it was.
Load ==
    /\ pc = "load"
    /\ IF empty(locals.ret)
       THEN store' = store /\ load_status' = "skipped"
       ELSE \/ store' = to_sql(store, locals.ret) /\ load_status' = "loaded"
            \/ store' = store /\ load_status' = "error"
    /\ pc' = "done"
    /\ UNCHANGED <<api_data, csv_data, scraped_data, csv_read, locals, runs>>

\* The next scheduled run of the pipeline (daily): a new process over the
\* same database.
StartRun ==
    /\ pc \in {"done", "failed"}
    /\ runs < MaxRuns
    /\ pc' = "extract"
    /\ runs' = runs + 1
    /\ load_status' = "none"
    /\ UNCHANGED <<api_data, csv_data, scraped_data, csv_read, locals, store>>

\* Phase 1 for sales of one product and one day with every amount present,
\* no listings, and a weather sample that is absent, complete or without
\* conditions.
ExtractDaily ==
    ExtractFrom({NoWeather, London, NoConditions},
                SalesInputs(ProductIds, {Str("2023-01-01")},
                            {Num(10, 1), Num(20, 1)}, {RawColumns}),
                ScrapedInputs({}))

Next == Extract \/ Transform

Spec == Init /\ [][Next]_vars

NextAgain == ExtractOneDay \/ Transform \/ TransformAgain

SpecAgain == Init /\ [][NextAgain]_vars

NextCells == ExtractMalformed \/ Transform

SpecCells == Init /\ [][NextCells]_vars

NextLoad == ExtractDaily \/ Transform \/ Load \/ StartRun

SpecLoad == Init /\ [][NextLoad]_vars

\* -------------------------------------------------------------- properties
\* The call of transform_data has returned a table.
Returned == pc = "load"

\* The sales input of the call: the table as read_csv_data returned it.
SalesRead == csv_read.df
HasSales == ~csv_read.isNone /\ ~empty(SalesRead)

Output == locals.ret
Joined == locals.final_df

Min(S) == CHOOSE x \in S : \A y \in S : x <= y

\* C1: composite-key uniqueness.  No two distinct rows of the table that
\* transform_data returns for non-empty sales have equal (product_id,
\* sale_date, sale_amount), null dates and null amounts included.
C1_KeyUnique ==
    (Returned /\ HasSales) =>
        \A p, q \in DOMAIN Output.rows :
            p # q => KeyOf(Output.rows[p]) # KeyOf(Output.rows[q])

\* C1 witness: a returned table from which duplicates were dropped and
\* which keeps a row whose sale_date and sale_amount are both null.
C1_Witness ==
    /\ Returned /\ HasSales
    /\ locals.duplicates_before > 0
    /\ \E p \in DOMAIN Output.rows :
          /\ isna(Output.rows[p]["sale_date"])
          /\ isna(Output.rows[p]["sale_amount"])

\* The keys of the rows of the sales input as read, before any cleaning.
RawKeys == [i \in DOMAIN SalesRead.rows |-> KeyOf(Standardized(SalesRead).rows[i])]

\* C2 as claimed: the output has at most as many rows as the sales input,
\* and as many when no two rows of the sales input have the same key.
C2_AsClaimed ==
    Returned =>
        /\ Len(Output.rows) <= Len(SalesRead.rows)
        /\ (\A i, j \in DOMAIN RawKeys : i # j => RawKeys[i] # RawKeys[j])
               => Len(Output.rows) = Len(SalesRead.rows)

\* C2 amended: the output has at most as many rows as the sales input, and
\* as many when no two rows have the same key once the sales are cleaned
\* (amounts imputed, dates and product ids coerced) and joined.
C2_RowCount ==
    Returned =>
        /\ Len(Output.rows) <= Len(SalesRead.rows)
        /\ (\A i, j \in DOMAIN Joined.rows :
                i # j => KeyOf(Joined.rows[i]) # KeyOf(Joined.rows[j]))
               => Len(Output.rows) = Len(SalesRead.rows)

\* C2 witness: three sales rows, one amount imputed, three listings fewer
\* than sales rows joined, and all three rows returned.
C2_Witness ==
    /\ Returned
    /\ Len(SalesRead.rows) = 3 /\ Len(Output.rows) = 3
    /\ \E i \in DOMAIN SalesRead.rows : isna(SalesRead.rows[i]["sale_amount"])
    /\ Len(locals.scraped_df.rows) = 1

\* C3: deduplication keeps first occurrences in order.  Of every group of
\* joined rows with one key the output holds exactly the row at the
\* smallest position; every output row is a joined row, and the output
\* rows are in the order of the sales rows they come from.
C3_KeepFirst ==
    (Returned /\ HasSales) =>
        /\ \A i \in DOMAIN Joined.rows :
              LET group == {j \in DOMAIN Joined.rows :
                               KeyOf(Joined.rows[j]) = KeyOf(Joined.rows[i])}
                  first == Min(group)
                  kept == {p \in DOMAIN Output.rows :
                              KeyOf(Output.rows[p]) = KeyOf(Joined.rows[i])}
              IN  /\ Cardinality(kept) = 1
                  /\ \A p \in kept :
                        /\ Output.rows[p] = Joined.rows[first]
                        /\ Output.index[p] = first - 1
        /\ \A p \in DOMAIN Output.rows :
              \E i \in DOMAIN Joined.rows :
                  /\ Output.rows[p] = Joined.rows[i]
                  /\ Output.index[p] = Joined.index[i]
        /\ \A p, q \in DOMAIN Output.rows :
              p < q => Output.index[p] < Output.index[q]

\* C3 witness: of three sales rows the second repeats the first and is
\* dropped, the first and the third are returned.
C3_Witness ==
    /\ Returned
    /\ Len(Joined.rows) = 3
    /\ Output.index = <<0, 2>>

\* The call of transform_data has ended, by a return or by an exception.
Ended == pc \in {"load", "failed"}

\* C4 as claimed: with the sales input empty or None the call returns an
\* empty table whatever the weather and the listings are; it does not raise.
C4_AsClaimed ==
    (Ended /\ ~HasSales) =>
        /\ locals.exc = "none"
        /\ locals.returned
        /\ Output = EmptyDataFrame

\* The statements that convert or clean the weather or the listings input.
WeatherSteps == {"convert_weather", "standardize_weather"}
ListingSteps == {"convert_scraped", "standardize_scraped", "clean_price"}

\* C5 as claimed: a call that returns the empty result because the cleaned
\* sales table is empty has executed no statement that converts or cleans
\* the weather or the listings.
C5_AsClaimed ==
    (Ended /\ "abort_empty_sales" \in Range(locals.log)) =>
        Range(locals.log) \cap (WeatherSteps \cup ListingSteps) = {}

\* C6 as claimed: a call on the sales table the caller holds returns what
\* a call with the same weather and listings returns for that table as it
\* was read, whatever calls were made on the table before.
C6_AsClaimed ==
    Returned => Output = transform_data(api_data, csv_read, scraped_data).ret

\* C7 as claimed: when the call has returned, the caller's sales table has
\* the columns and values it had before the call, and the returned table
\* is not the caller's sales table.
C7_AsClaimed ==
    Returned => (csv_data = csv_read /\ ~locals.ret_is_arg)

\* C8: without a weather input (None or an empty dict) and with sales
\* rows, no row of the output holds a value in a weather field, and the
\* broadcast stage hands the cleaned sales table on unchanged.
C8_NoWeather ==
    (Returned /\ HasSales /\ ~WeatherTruthy(api_data)) =>
        /\ \A p \in DOMAIN Output.rows :
              \A c \in Range(WeatherColumns) :
                  c \in DOMAIN Output.rows[p] => isna(Output.rows[p][c])
        /\ locals.merged_df
               = normalize(api_data, csv_read, scraped_data).sales_df

\* C8 witness: three sales rows transformed and joined with listings while
\* the weather input is None.
C8_Witness ==
    /\ Returned
    /\ api_data = NoWeather
    /\ Len(locals.merged_df.rows) = 3
    /\ Len(locals.scraped_df.rows) = 2
    /\ Len(Output.rows) = 3

\* C9: with a weather sample and sales rows, every row after the broadcast
\* stage holds, in each of the six weather fields, the value extracted
\* from the sample, and the stage keeps the number of sales rows.
C9_Broadcast ==
    (Returned /\ HasSales /\ WeatherTruthy(api_data)) =>
        /\ Len(locals.merged_df.rows) = Len(SalesRead.rows)
        /\ Len(locals.weather_df.rows) = 1
        /\ \A i \in DOMAIN locals.merged_df.rows :
              \A c \in Range(WeatherColumns) :
                  /\ c \in DOMAIN locals.merged_df.rows[i]
                  /\ locals.merged_df.rows[i][c] = locals.weather_df.rows[1][c]

\* C9 witness: three sales rows that all carry the London sample.
C9_Witness ==
    /\ Returned
    /\ api_data = London
    /\ Len(locals.merged_df.rows) = 3
    /\ \A i \in 1..3 :
          /\ locals.merged_df.rows[i]["city"] = Str("London")
          /\ locals.merged_df.rows[i]["temperature_celsius"] = Num(5, 1)
          /\ locals.merged_df.rows[i]["weather_condition"] = Str("Rain")
          /\ locals.merged_df.rows[i]["report_timestamp"]
                 = Timestamp(1672531200)

BookColumns == {"book_title", "book_availability", "book_price_gbp"}

\* C10: positional left join.  With n sales rows and m > 0 listings the
\* joined table has n rows; row i keeps its sales and weather fields and
\* carries the title, availability and parsed price of listing i when
\* i <= m, and null book fields when i > m.
C10_PositionalJoin ==
    (Returned /\ HasSales /\ ~empty(locals.scraped_df)) =>
        LET n == Len(SalesRead.rows)
            m == Len(scraped_data.items)
        IN  /\ Len(Joined.rows) = n
            /\ \A i \in DOMAIN Joined.rows :
                  /\ \A c \in Range(locals.merged_df.columns) :
                        Joined.rows[i][c] = locals.merged_df.rows[i][c]
                  /\ i <= m =>
                        /\ Joined.rows[i]["book_title"]
                               = scraped_data.items[i]["title"]
                        /\ Joined.rows[i]["book_availability"]
                               = scraped_data.items[i]["availability"]
                        /\ Joined.rows[i]["book_price_gbp"]
                               = locals.scraped_df.rows[i]["book_price_gbp"]
                  /\ i > m =>
                        \A c \in BookColumns : isna(Joined.rows[i][c])

\* C10 witness: two sales rows and one listing; the first row carries the
\* listing with its price parsed, the second has null book fields.
C10_Witness ==
    /\ Returned
    /\ Len(Joined.rows) = 2
    /\ scraped_data.items = <<GoodBook>>
    /\ Joined.rows[1]["book_title"] = Str("A Light in the Attic")
    /\ Joined.rows[1]["book_price_gbp"] = Num(5177, 100)
    /\ \A c \in BookColumns : isna(Joined.rows[2][c])

\* C11: without listings (None or an empty list) and with sales rows, no
\* row of the output has a book field, and the join stage hands the table
\* of the broadcast stage on unchanged.
C11_NoListings ==
    (Returned /\ HasSales /\ (scraped_data.isNone \/ scraped_data.items = <<>>))
        =>
        /\ \A p \in DOMAIN Output.rows : DOMAIN Output.rows[p] \cap BookColumns = {}
        /\ Range(Output.columns) \cap BookColumns = {}
        /\ Joined = locals.merged_df

\* C11 witness: three sales rows with the London sample and an empty list
\* of listings, all three returned.
C11_Witness ==
    /\ Returned
    /\ api_data = London
    /\ scraped_data = ScrapedData(FALSE, <<>>)
    /\ Len(locals.merged_df.rows) = 3
    /\ Len(Output.rows) = 3

\* The cleaned sales table of the call.
Cleaned == locals.sales_df

\* C12 as claimed: for sales rows and listings with a malformed sale_date,
\* product_id, sale_amount or price cell the call completes, and every
\* such cell is a date, a number or null afterwards.
C12_AsClaimed ==
    (Ended /\ HasSales) =>
        /\ locals.exc = "none"
        /\ \A i \in DOMAIN Cleaned.rows :
              /\ Cleaned.rows[i]["product_id"].k = "num"
              /\ Cleaned.rows[i]["sale_date"].k \in {"date", "null"}
              /\ Cleaned.rows[i]["sale_amount"].k \in {"num", "null"}
        /\ \A j \in DOMAIN locals.scraped_df.rows :
              locals.scraped_df.rows[j]["book_price_gbp"].k = "num"

\* C14 as claimed: every product_id of the cleaned sales table is a
\* non-negative integer, and it is 0 where the cell read was missing or
\* not a number.
C14_AsClaimed ==
    (Returned /\ HasSales) =>
        \A i \in DOMAIN Cleaned.rows :
            /\ Cleaned.rows[i]["product_id"].k = "num"
            /\ Cleaned.rows[i]["product_id"].d = 1
            /\ Cleaned.rows[i]["product_id"].n >= 0
            /\ isna(to_numeric(Standardized(SalesRead).rows[i]["product_id"]))
                   => Cleaned.rows[i]["product_id"] = Num(0, 1)

\* The sale_amount cells of the sales input as read.
RawAmounts == Column(Standardized(SalesRead), "sale_amount")

\* C13: mean imputation.  In the cleaned sales table every amount that was
\* present is unchanged and every missing amount is the sum of the present
\* amounts of the batch divided by their number (it stays null when no
\* amount is present); a batch [null, 10] of one product and one date
\* becomes two rows with one key, of which only the first is returned.
C13_MeanImputation ==
    (Returned /\ HasSales) =>
        LET present == SelectSeq(RawAmounts, LAMBDA c : ~isna(c))
            total == Sum(present)
        IN  /\ Len(Cleaned.rows) = Len(RawAmounts)
            /\ \A i \in DOMAIN RawAmounts :
                  LET filled == Cleaned.rows[i]["sale_amount"]
                  IN  IF ~isna(RawAmounts[i]) THEN filled = RawAmounts[i]
                      ELSE IF present = <<>> THEN isna(filled)
                      ELSE /\ filled.k = "num"
                           /\ filled.n * total.d * Len(present)
                                  = total.n * filled.d
            /\ (/\ RawAmounts = <<Null, Num(10, 1)>>
                /\ KeyOf(SalesRead.rows[1])[1] = KeyOf(SalesRead.rows[2])[1]
                /\ KeyOf(SalesRead.rows[1])[2] = KeyOf(SalesRead.rows[2])[2])
                   => /\ Len(Joined.rows) = 2
                      /\ Joined.rows[1]["sale_amount"] = Num(10, 1)
                      /\ KeyOf(Joined.rows[1]) = KeyOf(Joined.rows[2])
                      /\ Output.index = <<0>>

\* C13 witness: the amounts 10, missing, 20 of one batch; the missing one
\* is returned as 15.
C13_Witness ==
    /\ Returned
    /\ RawAmounts = <<Num(10, 1), Null, Num(20, 1)>>
    /\ Len(Output.rows) = 3
    /\ Output.rows[2]["sale_amount"] = Num(15, 1)

SalesColumns ==
    {"product_id", "sale_date", "sale_amount", "sale_month", "sale_day_name"}

HasWeather == WeatherTruthy(api_data)
HasListings == ~scraped_data.isNone /\ scraped_data.items # <<>>

\* C15 as claimed: with sales rows, the columns of the returned table are
\* exactly the fourteen columns of unified_data, whether or not weather and
\* listings are present.
C15_AsClaimed ==
    (Returned /\ HasSales) => Range(Output.columns) = UnifiedColumns

\* C15 amended: with sales rows of the three raw columns, the columns of
\* the returned table are the five sales columns, plus the six weather
\* columns exactly when a weather sample is present, plus the three book
\* columns exactly when there are listings; they are always columns of
\* unified_data and every row has exactly these fields.
C15_Columns ==
    (Returned /\ HasSales) =>
        /\ Range(Output.columns)
              = SalesColumns
                  \cup (IF HasWeather THEN Range(WeatherColumns) ELSE {})
                  \cup (IF HasListings THEN BookColumns ELSE {})
        /\ Range(Output.columns) \subseteq UnifiedColumns
        /\ Len(Output.columns) = Cardinality(Range(Output.columns))
        /\ \A p \in DOMAIN Output.rows :
              DOMAIN Output.rows[p] = Range(Output.columns)

\* C15 witness: sales rows with the London sample and listings; the
\* returned table has all fourteen columns.
C15_Witness ==
    /\ Returned
    /\ HasSales
    /\ api_data = London
    /\ HasListings
    /\ Range(Output.columns) = UnifiedColumns
    /\ Len(Output.rows) >= 2

\* The frame of a second pass of lines 124-142 over the returned table.
DedupAgain ==
    RemoveDuplicates([locals EXCEPT !.returned = FALSE, !.final_df = Output,
                                    !.duplicates_before = 0])

\* C16: deduplication is idempotent.  The duplicate removal applied to the
\* table it returned finds no duplicate, removes no row and yields the
\* same table.
C16_Idempotent ==
    (Returned /\ HasSales) =>
        /\ duplicated(Output) = {}
        /\ drop_duplicates(Output) = Output
        /\ DedupAgain.duplicates_before = 0
        /\ DedupAgain.final_df_cleaned = Output
        /\ DedupAgain.log = locals.log

\* C16 witness: three joined rows of one key; the first pass removed two of
\* them and the second pass over the one returned row removes none.
C16_Witness ==
    /\ Returned
    /\ Len(Joined.rows) = 3
    /\ locals.duplicates_before = 2
    /\ Len(Output.rows) = 1
    /\ DedupAgain.final_df_cleaned = Output

\* The step of load_data_to_db.
LoadStep == pc = "load" /\ pc' = "done"

\* C17: the load step only appends.  The table changes only in a load
\* step, which is taken only after transform_data has returned; an empty
\* unified table leaves it unchanged; a load that succeeds adds exactly
\* the k rows of the unified table, in order and under new record ids,
\* after the records already stored, which stay as they were; a load that
\* fails leaves the table unchanged.
C17_AppendOnly ==
    [][/\ (store' # store \/ load_status' \in {"skipped", "loaded", "error"})
            => LoadStep
       /\ LoadStep =>
            /\ locals.returned /\ locals.exc = "none"
            /\ Len(store') >= Len(store)
            /\ SubSeq(store', 1, Len(store)) = store
            /\ empty(Output) => (store' = store /\ load_status' = "skipped")
            /\ load_status' # "loaded" => store' = store
            /\ load_status' = "loaded" =>
                  /\ Len(store') = Len(store) + Len(Output.rows)
                  /\ \A i \in DOMAIN Output.rows :
                        \A c \in DOMAIN Output.rows[i] :
                            store'[Len(store) + i].fields[c] = Output.rows[i][c]
            /\ \A i, j \in DOMAIN store' :
                  i < j => store'[i].record_id < store'[j].record_id
      ]_vars

\* C17 witness: the second run has loaded its two rows after the one row
\* of the first run.
C17_Witness ==
    /\ pc = "done"
    /\ runs = 2
    /\ load_status = "loaded"
    /\ Len(Output.rows) = 2
    /\ Len(store) = 3
    /\ store[3].record_id = 3

====
